---- MODULE Spec2Model ----
(***************************************************************************)
(* A model of unifi_client.py: the UnifiAPIClient session client and its   *)
(* DPI identifier-map resolver.  One client is constructed and then its    *)
(* methods are invoked one at a time (the code is synchronous and single   *)
(* threaded).  Every method invocation is one action; the HTTP exchanges   *)
(* it performs are recorded, in order, in call.requests.                   *)
(***************************************************************************)
EXTENDS Integers, Sequences, FiniteSets, TLC

VARIABLES
    instance,                               \* "none" | "constructed" | "raised"
    network_traffic_category_map,           \* None or Some(map)
    network_traffic_category_map_hash,      \* None or Some(hex digest)
    network_traffic_application_map,        \* None or Some(map)
    network_traffic_application_map_hash,   \* None or Some(hex digest)
    call                                    \* the last method invocation

vars == <<instance, network_traffic_category_map, network_traffic_category_map_hash,
          network_traffic_application_map, network_traffic_application_map_hash, call>>

-----------------------------------------------------------------------------
(* Bounds of the model. *)

MaxMatches == 2     \* tokens on the login page
MaxBuildList == 3   \* length of a caller supplied angular_build_str_list
MaxEntries == 2     \* entries in the "data" list of a DPI response
MaxStats == 2       \* records in one entry's "by_app" list
MaxAttrs == 2       \* length of a stat_attributes list
MaxCat == 3         \* largest category id handed to the annotation step alone
MaxAppOffset == 1   \* application ids this far from 0 and from 2^16
MaxApplications == 2 \* times the annotation step is applied to one record

(* Program constants. *)

HTTP_OK == 200      \* the only status any method accepts
CatShift == 16      \* stat["cat"] << 16

-----------------------------------------------------------------------------
(* Python's None and a present value. *)

None == <<>>
Some(v) == <<v>>
IsNone(o) == Len(o) = 0
Val(o) == o[1]

Range(s) == {s[i] : i \in DOMAIN s}

SeqsUpTo(S, n) == UNION {[1..k -> S] : k \in 0..n}

RECURSIVE Pow2(_)
Pow2(n) == IF n = 0 THEN 1 ELSE 2 * Pow2(n - 1)

(* What the controller can answer. *)
Statuses == {200, 204, 404}

(* Build ids that can appear on the login page or in a caller's list. *)
BuildIds == {"g9c8f4ab88", "0.1.2"}

-----------------------------------------------------------------------------
(* One HTTP exchange of the requests session: the request and the status   *)
(* of its response.                                                        *)

Exchange(method, path, build, status) ==
    [method |-> method, path |-> path, build |-> build, status |-> status]

url_login == "/api/login"
login_page_url == "/manage/account/login"
dynamic_dpi_js_url == "/manage/angular/<build>/js/dynamic.dpi.js"

(* The exception every method of the module raises itself. *)
UnifiAPIClientException == "UnifiAPIClientException"

(* How a call ends: what it returns or raises, the exchanges it made, and  *)
(* the local variables worth keeping (Noting).                             *)
Returned(value, requests) ==
    [outcome |-> "return", error |-> "", value |-> Some(value), requests |-> requests,
     locals |-> <<>>]

Raised(error, requests) ==
    [outcome |-> "raise", error |-> error, value |-> None, requests |-> requests,
     locals |-> <<>>]

Noting(result, locals) == [result EXCEPT !.locals = locals]

-----------------------------------------------------------------------------
(* The login page as the text re.findall scans: a sequence of tokens, each *)
(* either an "angular/<build>/js/" path or other markup.                   *)

PageTokens == BuildIds \cup {"<markup>"}
LoginPages == SeqsUpTo(PageTokens, MaxMatches)

\* re.findall(r'angular/([a-zA-Z0-9.]*)/js/', text): the build-id group of
\* every match, in page order, duplicates kept.
FindAll(text) == SelectSeq(text, LAMBDA t : t \in BuildIds)

(* Iterating set(build_stings_in_text): each distinct element once, in an  *)
(* order the caller does not control (set_order is a permutation of all    *)
(* build ids, chosen by the environment).                                  *)
SetIteration(build_strings, set_order) ==
    SelectSeq(set_order, LAMBDA b : b \in Range(build_strings))

SetOrders == {o \in [1..Cardinality(BuildIds) -> BuildIds] : Range(o) = BuildIds}

-----------------------------------------------------------------------------
(* dynamic.dpi.js as the text the resolver works on: a sequence of tokens. *)
(* A token is a piece of source, a run of n spaces, a newline, or the      *)
(* source text of a table; a table's text is a list of "key: {name: ...}"  *)
(* entries, or is not a well-formed literal.                               *)

Literal(wellformed, entries) == [wellformed |-> wellformed, entries |-> entries]

Tok(t) == [t |-> t, n |-> 0, literal |-> Literal(FALSE, <<>>)]
Spaces(n) == [t |-> " ", n |-> n, literal |-> Literal(FALSE, <<>>)]
Newline == Tok("\n")
Table(literal) == [t |-> "{...}", n |-> 0, literal |-> literal]

(* The script as served, minified.  In the known layout module 1 exports   *)
(* an object holding the categories table and then the applications table, *)
(* and module 2 follows; in another layout the tables stand the other way  *)
(* round.                                                                  *)
Script(layout, cats, apps) ==
    IF layout = "dpi"
    THEN <<Tok("1:[function(e,t){e.exports={"),
           Tok("categories:"), Table(cats), Tok(","),
           Tok("applications:"), Table(apps), Tok("}"),
           Tok("},{}],"), Tok("2:"), Tok("[function(e,t){}]")>>
    ELSE <<Tok("1:[function(e,t){e.exports={"),
           Tok("applications:"), Table(apps), Tok(","),
           Tok("categories:"), Table(cats), Tok("}"),
           Tok("},{}],"), Tok("2:"), Tok("[function(e,t){}]")>>

ScriptWeb ==
    Script("dpi", Literal(TRUE, << <<1, "Web">> >>),
                  Literal(TRUE, << <<65541, "HTTPS">> >>))
ScriptMedia ==
    Script("dpi", Literal(TRUE, << <<2, "Media">>, <<2, "Streaming">> >>),
                  Literal(TRUE, << <<65541, "HTTPS">>, <<131078, "RTSP">> >>))
ScriptMediaReordered ==
    Script("dpi", Literal(TRUE, << <<2, "Streaming">> >>),
                  Literal(TRUE, << <<131078, "RTSP">>, <<65541, "HTTPS">> >>))
ScriptOtherLayout ==
    Script("other", Literal(TRUE, << <<1, "Web">> >>),
                    Literal(TRUE, << <<65541, "HTTPS">> >>))
ScriptBadCategories ==
    Script("dpi", Literal(FALSE, <<>>), Literal(TRUE, << <<65541, "HTTPS">> >>))
ScriptBadApplications ==
    Script("dpi", Literal(TRUE, << <<1, "Web">> >>), Literal(FALSE, <<>>))

(* The known layout with "categories: null". *)
ScriptNullCategories == [ScriptWeb EXCEPT ![3] = Tok("null")]

Scripts == {ScriptWeb, ScriptMedia, ScriptMediaReordered, ScriptOtherLayout,
            ScriptBadCategories, ScriptBadApplications, ScriptNullCategories}

RECURSIVE Flatten(_)
Flatten(seqs) == IF seqs = <<>> THEN <<>> ELSE Head(seqs) \o Flatten(Tail(seqs))

(* jsbeautifier.beautify: one property per line, indented four spaces per  *)
(* level of nesting (the tables' properties are at the third level), one   *)
(* space after a colon and after a comma; the tables' content is kept.     *)
beautify(text) ==
    LET line(tok) ==
            CASE tok.t \in {"categories:", "applications:"} ->
                     <<Newline, Spaces(12), tok, Spaces(1)>>
              [] tok.t = "}" -> <<Newline, Spaces(8), tok>>
              [] tok.t = "},{}]," -> <<Newline, Spaces(4), Tok("}, {}],")>>
              [] tok.t = "2:" -> <<Newline, Spaces(4), tok, Spaces(1)>>
              [] OTHER -> <<tok>>
    IN  Flatten([i \in DOMAIN text |-> line(text[i])])

\* Where the pieces of the pattern
\*   r".*categories: (.*),.* {12}applications:(.*)}\n {4}}, \{}],\n {4}2:"
\* can stand in a text: "categories: " at i, "," at j, the spaces and
\* "applications:" at m, the closing sequence at n.
PatternPlaces(text, indent, closing) ==
    LET is == {i \in 1..(Len(text) - 1) :
                  /\ text[i].t = "categories:"
                  /\ text[i + 1].t = " " /\ text[i + 1].n >= 1}
        js == {j \in 1..Len(text) : text[j].t = ","}
        ms == {m \in 1..(Len(text) - 1) :
                  /\ text[m].t = " " /\ text[m].n >= indent
                  /\ text[m + 1].t = "applications:"}
        ns == {n \in 1..(Len(text) - Len(closing) + 1) :
                  \A k \in DOMAIN closing :
                      /\ text[n + k - 1].t = closing[k].t
                      /\ text[n + k - 1].n = closing[k].n}
    IN  {q \in is \X js \X ms \X ns :
            q[1] + 1 < q[2] /\ q[2] < q[3] /\ q[3] + 1 < q[4]}

(* Every ".*" is greedy: the last place that lets the rest match. *)
Greedy(places) ==
    CHOOSE q \in places :
        \A r \in places :
            \/ r[1] < q[1]
            \/ r[1] = q[1] /\ r[2] < q[2]
            \/ r[1] = q[1] /\ r[2] = q[2] /\ r[3] < q[3]
            \/ r[1] = q[1] /\ r[2] = q[2] /\ r[3] = q[3] /\ r[4] <= q[4]

Groups(text, q) == <<SubSeq(text, q[1] + 2, q[2] - 1), SubSeq(text, q[3] + 2, q[4] - 1)>>

(* A pattern that asks for no indentation before "applications:" and for   *)
(* nothing between the applications table and "}, {}],".                   *)
re_match_without_layout(text) ==
    LET places == PatternPlaces(text, 1, <<Tok("}, {}],"), Newline, Spaces(4), Tok("2:")>>)
    IN  IF places = {} THEN None ELSE Some(Groups(text, Greedy(places)))

\* re.match(r".*categories: (.*),.* {12}applications:(.*)}\n {4}}, \{}],\n {4}2:",
\*          text, re.DOTALL): a match object (its two groups), or None when
\* the pattern matches nowhere from the start of the text.
re_match(text) ==
    LET places == PatternPlaces(text, 12,
                                <<Tok("}"), Newline, Spaces(4), Tok("}, {}],"),
                                  Newline, Spaces(4), Tok("2:")>>)
    IN  IF places = {} THEN None ELSE Some(Groups(text, Greedy(places)))

(* A Python dict: its items in insertion order, no key twice.              *)
DictKeys(d) == {d[i][1] : i \in DOMAIN d}
DictItem(d, k) == d[CHOOSE i \in DOMAIN d : d[i][1] = k][2]

(* d.get(k, default) *)
DictGet(d, k, default) == IF k \in DictKeys(d) THEN DictItem(d, k) ELSE default

(* The YAML document in a captured group: the text without the white      *)
(* space around it.                                                        *)
Document(stream) == SelectSeq(stream, LAMBDA tok : tok.t \notin {" ", "\n"})

(* The document is YAML's null: the word, or nothing at all. *)
NullDocument(stream) ==
    \/ Document(stream) = <<>>
    \/ Len(Document(stream)) = 1 /\ Document(stream)[1].t = "null"

(* The document is null or one well-formed table (every group of the       *)
(* scripts drawn holds null or a table, well-formed or not, and white      *)
(* space).                                                                 *)
Parsable(stream) ==
    \/ NullDocument(stream)
    \/ /\ Len(Document(stream)) = 1
       /\ Document(stream)[1].t = "{...}"
       /\ Document(stream)[1].literal.wellformed

(* yaml.load(literal, Loader=yaml.FullLoader): None for a null document;   *)
(* for a well-formed mapping literal "k: {name: n}, ..." a dict            *)
(* k -> {"name": n}, where a key written twice stays where it first stood  *)
(* and keeps its last value.                                               *)
yaml_load(stream) ==
    LET e == Document(stream)[1].literal.entries
        first(i) == \A j \in DOMAIN e : e[j][1] = e[i][1] => i <= j
        last(k) == CHOOSE i \in DOMAIN e :
                       /\ e[i][1] = k
                       /\ \A j \in DOMAIN e : e[j][1] = k => j <= i
        firsts == SelectSeq([i \in DOMAIN e |-> i], first)
    IN  IF NullDocument(stream) THEN None
        ELSE Some([n \in DOMAIN firsts |->
                      <<e[firsts[n]][1], [name |-> e[last(e[firsts[n]][1])][2]]>>])

(* json.dumps(map): the JSON text; integer keys are written as strings,    *)
(* None as null.                                                           *)
RECURSIVE json_items(_)
json_items(d) ==
    IF d = <<>> THEN ""
    ELSE "\"" \o ToString(Head(d)[1]) \o "\": {\"name\": \"" \o Head(d)[2].name \o "\"}"
         \o (IF Len(d) > 1 THEN ", " ELSE "") \o json_items(Tail(d))

json_dumps(d) == IF IsNone(d) THEN "null" ELSE "{" \o json_items(Val(d)) \o "}"

(* str(hashlib.sha256(bytes(text, 'utf-8')).hexdigest()): the digest is    *)
(* kept symbolic; equal texts, and only equal texts, have equal digests.   *)
sha256_hexdigest(text) == "sha256<" \o text \o ">"

-----------------------------------------------------------------------------
(* get_category_and_application_map                                        *)

(* What the controller serves to one run of the resolver. *)
Envs ==
    [page_status : Statuses, page : LoginPages, set_order : SetOrders,
     script_status : [BuildIds -> Statuses], script : Scripts]

(* The loop without its break: every candidate is requested. *)
RECURSIVE CandidateLoopWithoutBreak(_, _, _)
CandidateLoopWithoutBreak(candidates, script_status, requests) ==
    IF candidates = <<>>
    THEN [found |-> FALSE, build |-> "", requests |-> requests]
    ELSE LET angular_build == Head(candidates)
             status == script_status[angular_build]
             sent == Append(requests,
                            Exchange("GET", dynamic_dpi_js_url, angular_build, status))
             rest == CandidateLoopWithoutBreak(Tail(candidates), script_status, sent)
         IN  IF status = HTTP_OK /\ ~rest.found
             THEN [found |-> TRUE, build |-> angular_build, requests |-> rest.requests]
             ELSE rest

(* The loop giving up at the first miss. *)
CandidateLoopEndingAtMiss(candidates, script_status, requests) ==
    IF candidates = <<>>
    THEN [found |-> FALSE, build |-> "", requests |-> requests]
    ELSE LET angular_build == Head(candidates)
             status == script_status[angular_build]
         IN  [found |-> status = HTTP_OK,
              build |-> IF status = HTTP_OK THEN angular_build ELSE "",
              requests |-> Append(requests,
                                  Exchange("GET", dynamic_dpi_js_url, angular_build, status))]

(* for angular_build in set(build_stings_in_text): GET the script; a 200   *)
(* breaks out of the loop, anything else continues.                        *)
RECURSIVE CandidateLoop(_, _, _)
CandidateLoop(candidates, script_status, requests) ==
    IF candidates = <<>>
    THEN [found |-> FALSE, build |-> "", requests |-> requests]
    ELSE LET angular_build == Head(candidates)
             status == script_status[angular_build]
             sent == Append(requests,
                            Exchange("GET", dynamic_dpi_js_url, angular_build, status))
         IN  IF status = HTTP_OK
             THEN [found |-> TRUE, build |-> angular_build, requests |-> sent]
             ELSE CandidateLoop(Tail(candidates), script_status, sent)

(* A page check that only rejects client and server errors. *)
PageRejectedOnErrorsOnly(status_code) == status_code >= 400

(* if login_page_response.status_code != 200 *)
PageRejected(status_code) == status_code # HTTP_OK

(* A test that only looks for None: an empty list counts as supplied. *)
NoBuildsSuppliedOnlyNone(angular_build_str_list) == IsNone(angular_build_str_list)

(* if angular_build_str_list is None or len(angular_build_str_list) < 1 *)
NoBuildsSupplied(angular_build_str_list) ==
    IsNone(angular_build_str_list) \/ Len(Val(angular_build_str_list)) < 1

(* Lines 639-650: match the beautified script, parse the two groups.       *)
(* re.match returns None when the pattern does not match, and None has no  *)
(* groups(): AttributeError.  yaml.load raises yaml.YAMLError on text that *)
(* is no literal.                                                          *)
ExtractMaps(beautified_dpi_js, requests) ==
    LET m == re_match(beautified_dpi_js)
    IN  IF IsNone(m) THEN Raised("AttributeError", requests)
        ELSE LET mg == Val(m)
             IN  IF Len(mg) # 2 THEN Raised(UnifiAPIClientException, requests)
                 ELSE IF ~Parsable(mg[1]) THEN Raised("YAMLError", requests)
                 ELSE IF ~Parsable(mg[2]) THEN Raised("YAMLError", requests)
                 ELSE Noting(Returned(<<yaml_load(mg[1]), yaml_load(mg[2])>>, requests),
                             [mg |-> mg])

(* angular_build_str_list is None or a list; the result is what the call   *)
(* returns or raises, with the exchanges it made.                          *)
get_category_and_application_map(angular_build_str_list, env) ==
    LET discover == NoBuildsSupplied(angular_build_str_list)
        page_get == <<Exchange("GET", login_page_url, "", env.page_status)>>
        requests == IF discover THEN page_get ELSE <<>>
        build_stings_in_text ==
            IF discover THEN FindAll(env.page) ELSE Val(angular_build_str_list)
        noted == [build_stings_in_text |-> build_stings_in_text]
    IN  IF discover /\ PageRejected(env.page_status)
        THEN Raised(UnifiAPIClientException, requests)
        ELSE IF discover /\ Len(build_stings_in_text) < 1
        THEN Noting(Raised(UnifiAPIClientException, requests), noted)
        ELSE LET loop == CandidateLoop(SetIteration(build_stings_in_text, env.set_order),
                                       env.script_status, requests)
             IN  IF ~loop.found
                 THEN Noting(Raised(UnifiAPIClientException, loop.requests), noted)
                 ELSE Noting(ExtractMaps(beautify(env.script), loop.requests), noted)

-----------------------------------------------------------------------------
(* __init__                                                                *)

(* A login check that only rejects client and server errors. *)
LoginFailedOnErrorsOnly(status_code) == status_code >= 400

(* if login_response.status_code != 200 *)
LoginFailed(status_code) == status_code # HTTP_OK

(* except UnifiAPIClientException: the one kind the constructor swallows.  *)
Swallowed(error) == error = UnifiAPIClientException

(* One method invocation: the method, its arguments, what the controller   *)
(* served to it, and how it ended.                                         *)
Invocation(op, args, served, result) ==
    [op |-> op, args |-> args, served |-> served, outcome |-> result.outcome,
     error |-> result.error, value |-> result.value, requests |-> result.requests,
     locals |-> result.locals]

(* No call is under way or waiting to be taken by the caller. *)
Idle == Invocation("", <<>>, <<>>, Returned("", <<>>))

(* A construction that resolves the maps whatever the flag says. *)
ConstructedIgnoringFlag(try_to_get_category_and_app_map, login_status, env) ==
    LET login == <<Exchange("POST", url_login, "", login_status)>>
        absent == [category_map |-> None, category_map_hash |-> None,
                   application_map |-> None, application_map_hash |-> None]
        r == get_category_and_application_map(None, env)
        sent == login \o r.requests
    IN  IF LoginFailed(login_status)
        THEN [instance |-> "raised", fields |-> absent,
              result |-> Raised(UnifiAPIClientException, login)]
        ELSE IF r.outcome = "return"
        THEN [instance |-> "constructed",
              fields |->
                  [category_map |-> Val(r.value)[1],
                   category_map_hash |->
                       Some(sha256_hexdigest(json_dumps(Val(r.value)[1]))),
                   application_map |-> Val(r.value)[2],
                   application_map_hash |->
                       Some(sha256_hexdigest(json_dumps(Val(r.value)[2])))],
              result |-> Noting(Returned("self", sent), r.locals)]
        ELSE IF Swallowed(r.error)
        THEN [instance |-> "constructed", fields |-> absent,
              result |-> Noting(Returned("self", sent), r.locals)]
        ELSE [instance |-> "raised", fields |-> absent,
              result |-> Noting(Raised(r.error, sent), r.locals)]

(* The instance fields and the outcome of UnifiAPIClient(...).  Loading    *)
(* the JSON schemas from disk (_load_json_schemas) sends nothing and is    *)
(* taken to succeed.                                                       *)
Constructed(try_to_get_category_and_app_map, login_status, env) ==
    LET login == <<Exchange("POST", url_login, "", login_status)>>
        absent == [category_map |-> None, category_map_hash |-> None,
                   application_map |-> None, application_map_hash |-> None]
    IN  IF LoginFailed(login_status)
        THEN [instance |-> "raised", fields |-> absent,
              result |-> Raised(UnifiAPIClientException, login)]
        ELSE IF ~try_to_get_category_and_app_map
        THEN [instance |-> "constructed", fields |-> absent,
              result |-> Returned("self", login)]
        ELSE LET r == get_category_and_application_map(None, env)
                 sent == login \o r.requests
             IN  IF r.outcome = "return"
                 THEN [instance |-> "constructed",
                       fields |->
                           [category_map |-> Val(r.value)[1],
                            category_map_hash |->
                                Some(sha256_hexdigest(json_dumps(Val(r.value)[1]))),
                            application_map |-> Val(r.value)[2],
                            application_map_hash |->
                                Some(sha256_hexdigest(json_dumps(Val(r.value)[2])))],
                       result |-> Noting(Returned("self", sent), r.locals)]
                 ELSE IF Swallowed(r.error)
                 THEN [instance |-> "constructed", fields |-> absent,
                       result |-> Noting(Returned("self", sent), r.locals)]
                 ELSE [instance |-> "raised", fields |-> absent,
                       result |-> Noting(Raised(r.error, sent), r.locals)]

init ==
    /\ instance = "none"
    /\ call.op = ""
    /\ \E try_to_get_category_and_app_map \in BOOLEAN, login_status \in Statuses,
          env \in Envs :
          LET c == Constructed(try_to_get_category_and_app_map, login_status, env)
          IN  /\ instance' = c.instance
              /\ network_traffic_category_map' = c.fields.category_map
              /\ network_traffic_category_map_hash' = c.fields.category_map_hash
              /\ network_traffic_application_map' = c.fields.application_map
              /\ network_traffic_application_map_hash' = c.fields.application_map_hash
              /\ call' = Invocation("__init__",
                                    [try_to_get_category_and_app_map |->
                                         try_to_get_category_and_app_map],
                                    [login_status |-> login_status],
                                    c.result)

fields == <<network_traffic_category_map, network_traffic_category_map_hash,
            network_traffic_application_map, network_traffic_application_map_hash>>

-----------------------------------------------------------------------------
(* Endpoint methods                                                        *)

(* A status check that only rejects client and server errors. *)
StatusRejectedOnErrorsOnly(status_code) == status_code >= 400

(* if <response>.status_code != 200: raise UnifiAPIClientException *)
StatusRejected(status_code) == status_code # HTTP_OK

(* jsonschema.validate(body, schema): raises jsonschema.ValidationError    *)
(* when the body does not fit.  The schema files are not modelled; whether *)
(* a body fits is the environment's choice (schema_ok).                    *)
Validate(body, schema_ok, requests) ==
    Noting(IF schema_ok THEN Returned(body, requests) ELSE Raised("ValidationError", requests),
           [validated |-> body])

(* The methods that send one request, check the status and return the      *)
(* parsed body, with or without validating it against a schema.            *)
Endpoints ==
    { [op |-> "get_self", method |-> "GET", path |-> "/api/self", schema |-> TRUE],
      [op |-> "get_sites", method |-> "GET", path |-> "/api/self/sites", schema |-> TRUE],
      [op |-> "get_self_site_stats", method |-> "GET", path |-> "/api/stat/sites",
       schema |-> TRUE],
      [op |-> "get_devices_for_site", method |-> "GET", path |-> "/api/s/<site>/stat/device",
       schema |-> TRUE],
      [op |-> "get_devices_for_default_site", method |-> "GET",
       path |-> "/api/s/<site>/stat/device", schema |-> TRUE],
      [op |-> "get_active_clients_for_site", method |-> "GET",
       path |-> "/api/s/<site>/stat/sta", schema |-> TRUE],
      [op |-> "get_known_clients_for_site", method |-> "GET",
       path |-> "/api/s/<site>/rest/user", schema |-> TRUE],
      [op |-> "DOES_NOT_WORK_get_spectrum_scan", method |-> "GET",
       path |-> "/api/s/<site>/stat/spectrumscan", schema |-> FALSE],
      [op |-> "get_ddns_information_for_site", method |-> "GET",
       path |-> "/api/s/<site>/stat/dynamicdns", schema |-> TRUE],
      [op |-> "get_site_dpi_by_category", method |-> "POST",
       path |-> "/api/s/<site>/stat/sitedpi", schema |-> TRUE],
      [op |-> "get_dpi_by_category", method |-> "POST",
       path |-> "/api/s/<site>/stat/stadpi", schema |-> TRUE],
      [op |-> "run_speed_test", method |-> "POST", path |-> "/api/s/<site>/cmd/devmgr",
       schema |-> FALSE],
      [op |-> "status_speed_test", method |-> "POST", path |-> "/api/s/<site>/cmd/devmgr",
       schema |-> FALSE],
      [op |-> "get_events", method |-> "POST", path |-> "/api/s/<site>/stat/event",
       schema |-> FALSE],
      [op |-> "get_alarms", method |-> "POST", path |-> "/api/s/<site>/stat/alarm",
       schema |-> FALSE] }

(* A request whose rejected status raises an error kind of its own. *)
SimpleRequestWithOwnErrorKind(endpoint, served) ==
    LET sent == <<Exchange(endpoint.method, endpoint.path, "", served.status)>>
    IN  IF StatusRejected(served.status)
        THEN Raised("RequestError", sent)
        ELSE IF endpoint.schema
        THEN Validate(served.body, served.schema_ok, sent)
        ELSE Returned(served.body, sent)

(* A request that also writes a name into the records of a by_cat list    *)
(* when the client has a category map.                                     *)
SimpleRequestNamingCategories(endpoint, served) ==
    LET sent == <<Exchange(endpoint.method, endpoint.path, "", served.status)>>
        named(stat) == [k \in DOMAIN stat \cup {"x_cat"} |->
                           IF k = "x_cat" THEN "__unlisted__" ELSE stat[k]]
        entry(e) == IF "by_cat" \in DOMAIN e
                    THEN [e EXCEPT !.by_cat = [j \in DOMAIN e.by_cat |-> named(e.by_cat[j])]]
                    ELSE e
        body == IF IsNone(network_traffic_category_map) THEN served.body
                ELSE [served.body EXCEPT
                         !.data = [i \in DOMAIN served.body.data |->
                                      entry(served.body.data[i])]]
    IN  IF StatusRejected(served.status)
        THEN Raised(UnifiAPIClientException, sent)
        ELSE IF endpoint.schema
        THEN Validate(body, served.schema_ok, sent)
        ELSE Returned(body, sent)

(* The body of one of them: one request; a rejected status raises.         *)
SimpleRequest(endpoint, served) ==
    LET sent == <<Exchange(endpoint.method, endpoint.path, "", served.status)>>
    IN  IF StatusRejected(served.status)
        THEN Raised(UnifiAPIClientException, sent)
        ELSE IF endpoint.schema
        THEN Validate(served.body, served.schema_ok, sent)
        ELSE Returned(served.body, sent)

(* What the controller serves to an endpoint call. *)
PlainBody == [meta |-> [rc |-> "ok"], data |-> <<>>]

(* A DPI response of type "by_cat": per-category records. *)
CategoryDpiBody ==
    [meta |-> [rc |-> "ok"],
     data |-> << [by_cat |-> << [cat |-> 1, rx_bytes |-> 10],
                               [cat |-> 2, rx_bytes |-> 20] >>] >>]

Served(bodies) == [status : Statuses, body : bodies, schema_ok : BOOLEAN]

endpoint_call ==
    /\ instance = "constructed"
    /\ call.op = ""
    /\ \E endpoint \in Endpoints, served \in Served({PlainBody, CategoryDpiBody}) :
          call' = Invocation(endpoint.op, <<>>, served, SimpleRequest(endpoint, served))
    /\ UNCHANGED <<instance, fields>>

-----------------------------------------------------------------------------
(* get_stats_for_site and the nine interval/element reports built on it    *)

all_stat_attributes ==
    <<"bytes", "wan-tx_bytes", "wan-rx_bytes", "wlan_bytes", "num_sta",
      "lan-num_sta", "wlan-num_sta", "time", "rx_bytes", "tx_bytes">>

supported_intervals == <<"5minutes", "hourly", "daily">>
supported_element_types == <<"site", "user", "ap">>

(* x in list *)
In(x, list) == x \in Range(list)

(* The checks without the loop over the attributes. *)
StatsArgumentsAcceptedUnlooped(interval, element_type, stat_attributes) ==
    /\ In(interval, supported_intervals)
    /\ In(element_type, supported_element_types)

(* The three pre-flight checks of lines 168-176; TRUE when none raises.    *)
StatsArgumentsAccepted(interval, element_type, stat_attributes) ==
    /\ In(interval, supported_intervals)
    /\ In(element_type, supported_element_types)
    /\ \A i \in DOMAIN stat_attributes : In(stat_attributes[i], all_stat_attributes)

StatsRequest(interval, element_type, stat_attributes, served) ==
    IF ~StatsArgumentsAccepted(interval, element_type, stat_attributes)
    THEN Raised("ValueError", <<>>)
    ELSE LET sent == <<Exchange("POST", "/api/s/<site>/stat/report/<interval>.<element_type>",
                                "", served.status)>>
         IN  IF StatusRejected(served.status)
             THEN Raised(UnifiAPIClientException, sent)
             ELSE Validate(served.body, served.schema_ok, sent)

(* Arguments a caller may pass: the supported values and some that are not. *)
IntervalArgs == Range(supported_intervals) \cup {"weekly"}
ElementTypeArgs == Range(supported_element_types) \cup {"device"}
AttributeArgs == {"bytes", "time", "rx_packets"}

get_stats_for_site ==
    /\ instance = "constructed"
    /\ call.op = ""
    /\ \E interval \in IntervalArgs, element_type \in ElementTypeArgs,
          stat_attributes \in SeqsUpTo(AttributeArgs, MaxAttrs),
          served \in Served({PlainBody}) :
          call' = Invocation("get_stats_for_site",
                             [interval |-> interval, element_type |-> element_type,
                              stat_attributes |-> stat_attributes],
                             served,
                             StatsRequest(interval, element_type, stat_attributes, served))
    /\ UNCHANGED <<instance, fields>>

(* get_5min_site_all_stats ... get_daily_user_all_stats *)
get_all_stats ==
    /\ instance = "constructed"
    /\ call.op = ""
    /\ \E interval \in Range(supported_intervals),
          element_type \in Range(supported_element_types),
          served \in Served({PlainBody}) :
          call' = Invocation("get_" \o (IF interval = "5minutes" THEN "5min" ELSE interval)
                                 \o "_" \o element_type \o "_all_stats",
                             [interval |-> interval, element_type |-> element_type,
                              stat_attributes |-> all_stat_attributes],
                             served,
                             StatsRequest(interval, element_type, all_stat_attributes,
                                          served))
    /\ UNCHANGED <<instance, fields>>

-----------------------------------------------------------------------------
(* get_site_dpi_by_app and get_dpi_by_app                                  *)

self ==
    [category_map |-> network_traffic_category_map,
     category_map_hash |-> network_traffic_category_map_hash,
     application_map |-> network_traffic_application_map,
     application_map_hash |-> network_traffic_application_map_hash]

(* A sentinel spelt differently. *)
UnlistedMisspelt == "unlisted"

UNLISTED == "__unlisted__"

(* The two ids packed the other way round. *)
app_cat_id_swapped(stat) == stat.app * Pow2(CatShift) + stat.cat

(* The category id multiplied by the shift width instead of shifted. *)
app_cat_id_unshifted(stat) == stat.cat * CatShift + stat.app

(* (stat["cat"] << 16) + stat["app"] *)
app_cat_id(stat) == stat.cat * Pow2(CatShift) + stat.app

(* An annotation that adds to a name field already there instead of       *)
(* replacing it.                                                           *)
AnnotateStatAppending(stat, client) ==
    [k \in DOMAIN stat \cup {"x_cat", "x_app", "x_cat_app_id"} |->
        CASE k = "x_cat" ->
                 (IF "x_cat" \in DOMAIN stat THEN stat.x_cat \o "," ELSE "") \o
                 DictGet(Val(client.category_map), stat.cat, [name |-> UNLISTED]).name
          [] k = "x_app" ->
                 (IF "x_app" \in DOMAIN stat THEN stat.x_app \o "," ELSE "") \o
                 DictGet(Val(client.application_map), app_cat_id(stat),
                         [name |-> UNLISTED]).name
          [] k = "x_cat_app_id" ->
                 Val(client.category_map_hash) \o ":" \o Val(client.application_map_hash)
          [] OTHER -> stat[k]]

(* The three assignments of lines 359-362 (424-426), made on the record.   *)
AnnotateStat(stat, client) ==
    [k \in DOMAIN stat \cup {"x_cat", "x_app", "x_cat_app_id"} |->
        CASE k = "x_cat" ->
                 DictGet(Val(client.category_map), stat.cat, [name |-> UNLISTED]).name
          [] k = "x_app" ->
                 DictGet(Val(client.application_map), app_cat_id(stat),
                         [name |-> UNLISTED]).name
          [] k = "x_cat_app_id" ->
                 Val(client.category_map_hash) \o ":" \o Val(client.application_map_hash)
          [] OTHER -> stat[k]]

(* for stat in <by_app list>: ... *)
AnnotateStats(by_app, client) ==
    [i \in DOMAIN by_app |-> AnnotateStat(by_app[i], client)]

(* "or" where the code says "and". *)
EitherMapPresent(client) ==
    ~IsNone(client.application_map) \/ ~IsNone(client.category_map)

(* self.network_traffic_application_map is not None and                    *)
(* self.network_traffic_category_map is not None                           *)
MapsPresent(client) ==
    ~IsNone(client.application_map) /\ ~IsNone(client.category_map)

(* What annotating one record raises on this client, "" when nothing:     *)
(* None has no get() (AttributeError), and None cannot be concatenated to  *)
(* a string (TypeError).                                                   *)
AnnotationError(client) ==
    IF IsNone(client.category_map) \/ IsNone(client.application_map)
    THEN "AttributeError"
    ELSE IF IsNone(client.category_map_hash) \/ IsNone(client.application_map_hash)
    THEN "TypeError"
    ELSE ""

HasStats(entry) == "by_app" \in DOMAIN entry /\ Len(entry.by_app) > 0

(* Lines 351-362: only response["data"][0] is looked at, and its by_app    *)
(* list is read with .get("by_app", []).                                   *)
SiteDpiAnnotated(response, client) ==
    IF Len(response.data) > 0 /\ MapsPresent(client)
    THEN IF "by_app" \in DOMAIN response.data[1]
         THEN [response EXCEPT !.data[1].by_app = AnnotateStats(@, client)]
         ELSE response
    ELSE response

(* The body validated as it was served, annotated afterwards. *)
get_site_dpi_by_app_validating_first(served, client) ==
    LET sent == <<Exchange("POST", "/api/s/<site>/stat/sitedpi", "", served.status)>>
    IN  IF StatusRejected(served.status)
        THEN Raised(UnifiAPIClientException, sent)
        ELSE IF ~served.schema_ok
        THEN Validate(served.body, served.schema_ok, sent)
        ELSE IF /\ Len(served.body.data) > 0 /\ MapsPresent(client)
                /\ HasStats(served.body.data[1]) /\ AnnotationError(client) # ""
        THEN Raised(AnnotationError(client), sent)
        ELSE Noting(Returned(SiteDpiAnnotated(served.body, client), sent),
                    [validated |-> served.body])

get_site_dpi_by_app_result(served, client) ==
    LET sent == <<Exchange("POST", "/api/s/<site>/stat/sitedpi", "", served.status)>>
    IN  IF StatusRejected(served.status)
        THEN Raised(UnifiAPIClientException, sent)
        ELSE IF /\ Len(served.body.data) > 0 /\ MapsPresent(client)
                /\ HasStats(served.body.data[1]) /\ AnnotationError(client) # ""
        THEN Raised(AnnotationError(client), sent)
        ELSE Validate(SiteDpiAnnotated(served.body, client), served.schema_ok, sent)

(* Lines 416-426: every device of response["data"], its by_app list read   *)
(* with device["by_app"].                                                  *)
DpiAnnotated(response, client) ==
    IF MapsPresent(client)
    THEN [response EXCEPT !.data =
             [i \in DOMAIN @ |-> [@[i] EXCEPT !.by_app = AnnotateStats(@, client)]]]
    ELSE response

(* A call that goes for the login page first when the client has no maps. *)
get_dpi_by_app_resolving_first(served, client) ==
    LET post == Exchange("POST", "/api/s/<site>/stat/stadpi", "", served.status)
        sent == IF MapsPresent(client) THEN <<post>>
                ELSE <<Exchange("GET", login_page_url, "", HTTP_OK), post>>
    IN  IF StatusRejected(served.status)
        THEN Raised(UnifiAPIClientException, sent)
        ELSE Validate(served.body, served.schema_ok, sent)

get_dpi_by_app_result(served, client) ==
    LET sent == <<Exchange("POST", "/api/s/<site>/stat/stadpi", "", served.status)>>
        data == served.body.data
        firstWithout ==
            IF \E i \in DOMAIN data : "by_app" \notin DOMAIN data[i]
            THEN CHOOSE i \in DOMAIN data :
                     /\ "by_app" \notin DOMAIN data[i]
                     /\ \A j \in 1..(i - 1) : "by_app" \in DOMAIN data[j]
            ELSE Len(data) + 1
    IN  IF StatusRejected(served.status)
        THEN Raised(UnifiAPIClientException, sent)
        ELSE IF /\ MapsPresent(client) /\ AnnotationError(client) # ""
                /\ \E i \in 1..(firstWithout - 1) : HasStats(data[i])
        THEN Raised(AnnotationError(client), sent)
        ELSE IF MapsPresent(client) /\ firstWithout <= Len(data)
        THEN Raised("KeyError", sent)
        ELSE Validate(DpiAnnotated(served.body, client), served.schema_ok, sent)

(* DPI responses: a "data" list of entries, each with or without a by_app  *)
(* list of raw stat records.                                               *)
StatRecords == {[cat |-> 1, app |-> 5], [cat |-> 2, app |-> 5]}

DpiEntries ==
    {[mac |-> "00:11:22:33:44:55"]} \cup
    {[mac |-> "00:11:22:33:44:55", by_app |-> by_app] :
        by_app \in SeqsUpTo(StatRecords, MaxStats)}

DpiBodies ==
    {[meta |-> [rc |-> "ok"], data |-> data] : data \in SeqsUpTo(DpiEntries, MaxEntries)}

get_site_dpi_by_app ==
    /\ instance = "constructed"
    /\ call.op = ""
    /\ \E served \in Served(DpiBodies) :
          call' = Invocation("get_site_dpi_by_app", <<>>, served,
                             get_site_dpi_by_app_result(served, self))
    /\ UNCHANGED <<instance, fields>>

get_dpi_by_app ==
    /\ instance = "constructed"
    /\ call.op = ""
    /\ \E served \in Served(DpiBodies) :
          call' = Invocation("get_dpi_by_app", <<>>, served,
                             get_dpi_by_app_result(served, self))
    /\ UNCHANGED <<instance, fields>>

-----------------------------------------------------------------------------
(* A caller invoking the resolver itself, with or without build ids.       *)

BuildListArgs == {None} \cup {Some(l) : l \in SeqsUpTo(BuildIds, MaxBuildList)}

(* What the controller serves to a resolver run with these arguments: the  *)
(* login page only when the run asks for it.                               *)
EnvsFor(angular_build_str_list) ==
    IF NoBuildsSupplied(angular_build_str_list) THEN Envs
    ELSE [page_status : {HTTP_OK}, page : {<<>>}, set_order : SetOrders,
          script_status : [BuildIds -> Statuses], script : Scripts]

(* A resolver call that keeps what it resolved on the client. *)
resolve_maps_caching ==
    /\ instance = "constructed"
    /\ call.op = ""
    /\ \E angular_build_str_list \in BuildListArgs :
       \E env \in EnvsFor(angular_build_str_list) :
          LET r == get_category_and_application_map(angular_build_str_list, env)
          IN  /\ call' = Invocation("get_category_and_application_map",
                                    [angular_build_str_list |-> angular_build_str_list],
                                    <<>>, r)
              /\ network_traffic_category_map' =
                     IF r.outcome = "return" THEN Val(r.value)[1]
                     ELSE network_traffic_category_map
              /\ network_traffic_application_map' =
                     IF r.outcome = "return" THEN Val(r.value)[2]
                     ELSE network_traffic_application_map
    /\ UNCHANGED <<instance, network_traffic_category_map_hash,
                   network_traffic_application_map_hash>>

resolve_maps ==
    /\ instance = "constructed"
    /\ call.op = ""
    /\ \E angular_build_str_list \in BuildListArgs :
       \E env \in EnvsFor(angular_build_str_list) :
          call' = Invocation("get_category_and_application_map",
                             [angular_build_str_list |-> angular_build_str_list], <<>>,
                             get_category_and_application_map(angular_build_str_list, env))
    /\ UNCHANGED <<instance, fields>>

(* The caller takes what the call returned (or handles what it raised)     *)
(* and goes on to its next call on the same client.                        *)
caller_proceeds ==
    /\ instance = "constructed"
    /\ call.op # ""
    /\ call' = Idle
    /\ UNCHANGED <<instance, fields>>

-----------------------------------------------------------------------------

Init ==
    /\ instance = "none"
    /\ network_traffic_category_map = None
    /\ network_traffic_category_map_hash = None
    /\ network_traffic_application_map = None
    /\ network_traffic_application_map_hash = None
    /\ call = Idle

Next ==
    \/ init
    \/ endpoint_call
    \/ get_stats_for_site
    \/ get_all_stats
    \/ get_site_dpi_by_app
    \/ get_dpi_by_app
    \/ resolve_maps
    \/ caller_proceeds

Spec == Init /\ [][Next]_vars

-----------------------------------------------------------------------------
(* The pure steps on their own: the composite key and the three           *)
(* assignments of the annotation, applied to one stat record by a client   *)
(* as construction left it, and the extraction pattern with the parser,    *)
(* applied to one script body.                                             *)

CatIds == 0..MaxCat
AppIds == (0..MaxAppOffset) \cup
          ((Pow2(CatShift) - 1 - MaxAppOffset)..(Pow2(CatShift) + MaxAppOffset))

(* A stat record as served, and one that already carries name fields. *)
StepStats ==
    {[cat |-> c, app |-> a] : c \in CatIds, a \in AppIds} \cup
    {[cat |-> c, app |-> a, x_cat |-> "Games", x_app |-> "Games",
      x_cat_app_id |-> "0:0"] : c \in CatIds, a \in AppIds}

InitSteps ==
    /\ instance = "constructed"
    /\ call = Idle
    /\ \E env \in Envs :
          LET c == Constructed(TRUE, HTTP_OK, env)
          IN  /\ c.instance = "constructed"
              /\ network_traffic_category_map = c.fields.category_map
              /\ network_traffic_category_map_hash = c.fields.category_map_hash
              /\ network_traffic_application_map = c.fields.application_map
              /\ network_traffic_application_map_hash = c.fields.application_map_hash

compute_app_cat_id ==
    /\ call.op = ""
    /\ \E stat \in StepStats :
          call' = Invocation("app_cat_id", [stat |-> stat], <<>>,
                             Returned(app_cat_id(stat), <<>>))
    /\ UNCHANGED <<instance, fields>>

annotate_stat ==
    /\ call.op = ""
    /\ MapsPresent(self)
    /\ AnnotationError(self) = ""
    /\ \E stat \in StepStats :
          call' = Invocation("annotate", [stat |-> stat], [times |-> 1, before |-> stat],
                             Returned(AnnotateStat(stat, self), <<>>))
    /\ UNCHANGED <<instance, fields>>

annotate_stat_again ==
    /\ call.op = "annotate"
    /\ call.served.times < MaxApplications
    /\ call' = Invocation("annotate", call.args,
                          [times |-> call.served.times + 1, before |-> Val(call.value)],
                          Returned(AnnotateStat(Val(call.value), self), <<>>))
    /\ UNCHANGED <<instance, fields>>

(* Bodies handed to the pattern: the example as the specification writes  *)
(* it, in one line and with single spaces, and scripts as the beautifier   *)
(* lays them out.                                                          *)
UncategorizedTable == Literal(TRUE, << <<0, "Uncategorized">> >>)
SkypeTable == Literal(TRUE, << <<65536, "Skype">> >>)

OneLineBody ==
    <<Tok("categories:"), Spaces(1), Table(UncategorizedTable), Tok(","), Spaces(1),
      Tok("..."), Spaces(1), Tok("applications:"), Table(SkypeTable), Tok("}, {}],"),
      Newline, Spaces(4), Tok("2:")>>

BeautifiedBodies ==
    {beautify(script) : script \in Scripts \cup {Script("dpi", UncategorizedTable, SkypeTable)}}

extract_maps ==
    /\ call.op = ""
    /\ \E beautified_dpi_js \in BeautifiedBodies \cup {OneLineBody} :
          call' = Invocation("re.match", [beautified_dpi_js |-> beautified_dpi_js], <<>>,
                             ExtractMaps(beautified_dpi_js, <<>>))
    /\ UNCHANGED <<instance, fields>>

NextSteps ==
    \/ extract_maps
    \/ compute_app_cat_id
    \/ annotate_stat
    \/ annotate_stat_again
    \/ caller_proceeds

SpecSteps == InitSteps /\ [][NextSteps]_vars

-----------------------------------------------------------------------------
(* Properties                                                              *)

IsConstruction == call.op = "__init__"
IsResolverCall == call.op = "get_category_and_application_map"
IsDpiByAppCall == call.op \in {"get_site_dpi_by_app", "get_dpi_by_app"}

AllAbsent ==
    /\ network_traffic_category_map = None
    /\ network_traffic_category_map_hash = None
    /\ network_traffic_application_map = None
    /\ network_traffic_application_map_hash = None

(* C1: when the login POST of a construction returns anything but 200, the *)
(* construction raises the client's exception, the login POST is the only  *)
(* request it has sent, no instance results (no map is set, nothing can be *)
(* called), and no further request is ever sent.                           *)
C1_LoginFailureIsFatal ==
    /\ (IsConstruction /\ call.served.login_status # 200) =>
           /\ instance = "raised"
           /\ call.outcome = "raise"
           /\ call.error = "UnifiAPIClientException"
           /\ call.value = None
           /\ call.requests =
                  <<[method |-> "POST", path |-> "/api/login", build |-> "",
                     status |-> call.served.login_status]>>
           /\ AllAbsent
    /\ instance = "raised" => (IsConstruction /\ ~ENABLED Next)

C1_Witness ==
    /\ IsConstruction
    /\ call.served.login_status = 404
    /\ call.args.try_to_get_category_and_app_map
    /\ instance = "raised"

(* C2 as claimed: a construction with the best-effort flag whose login     *)
(* returned 200 always completes, whatever happens to the resolver; the    *)
(* maps are then both set or both absent and the client can be called.     *)
C2_EveryResolutionFailureSwallowed ==
    (/\ IsConstruction
     /\ call.served.login_status = 200
     /\ call.args.try_to_get_category_and_app_map) =>
        /\ instance = "constructed"
        /\ call.outcome = "return"
        /\ (network_traffic_category_map = None) = (network_traffic_application_map = None)
        /\ ENABLED caller_proceeds


(* The raw body a DPI call was served, the body it returned, and where the *)
(* stat records are in them.                                               *)
RawBody == call.served.body
ReturnedBody == call.value[1]

StatsOf(body, i) ==
    IF "by_app" \in DOMAIN body.data[i] THEN DOMAIN body.data[i].by_app ELSE {}

StatPositions(body) == UNION {{<<i, j>> : j \in StatsOf(body, i)} : i \in DOMAIN body.data}

NameFields == {"x_cat", "x_app", "x_cat_app_id"}

BothMapsSet ==
    network_traffic_category_map # None /\ network_traffic_application_map # None

(* A DPI result that is the raw body or a plain failure of the request or  *)
(* of the schema check: nothing annotated, nothing raised by annotating.   *)
LeftRaw(served, result) ==
    /\ result.error \in {"", "ValidationError"}
    /\ served.schema_ok => result.outcome = "return"
    /\ result.outcome = "return" =>
          /\ result.value[1] = served.body
          /\ \A p \in StatPositions(result.value[1]) :
                LET stat == result.value[1].data[p[1]].by_app[p[2]]
                    raw == served.body.data[p[1]].by_app[p[2]]
                IN  /\ stat.cat = raw.cat /\ stat.app = raw.app
                    /\ DOMAIN stat \cap NameFields = {}

(* Clients with one map or both missing. *)
ClientsMissingAMap ==
    {c \in [category_map : {None, Some(<< <<1, [name |-> "Web"]>> >>)},
            category_map_hash : {None, Some("c0ffee")},
            application_map : {None, Some(<< <<65541, [name |-> "HTTPS"]>> >>)},
            application_map_hash : {None, Some("decade")}] :
        c.category_map = None \/ c.application_map = None}

(* C3: a DPI by-app call answered with 200 on a client that lacks the      *)
(* category map or the application map returns the body it was served:     *)
(* every record keeps cat and app and gets no x_cat, x_app or x_cat_app_id, *)
(* and nothing is raised by the annotation step.  Stated of the call made  *)
(* and of the same response handled by any client missing a map.           *)
C3_AbsentMapLeavesRecordsRaw ==
    (IsDpiByAppCall /\ call.served.status = 200) =>
        /\ ~BothMapsSet => LeftRaw(call.served, call)
        /\ \A c \in ClientsMissingAMap :
              /\ LeftRaw(call.served, get_site_dpi_by_app_result(call.served, c))
              /\ LeftRaw(call.served, get_dpi_by_app_result(call.served, c))

C3_Witness ==
    /\ IsDpiByAppCall
    /\ call.served.status = 200
    /\ ~BothMapsSet
    /\ call.outcome = "return"
    /\ StatPositions(RawBody) # {}
    /\ ReturnedBody = RawBody

(* The entries of "data" whose records the call annotates. *)
AnnotatedPositions ==
    {p \in StatPositions(RawBody) : call.op = "get_site_dpi_by_app" => p[1] = 1}

(* C4: with both maps present, the record {cat: c, app: a} is annotated to *)
(* a record with the same cat and app, whose x_cat is the name the         *)
(* category map holds at c and whose x_app is the name the application map *)
(* holds at (c << 16) | a, when these keys are listed, and whose           *)
(* x_cat_app_id is "<category map hash>:<application map hash>".           *)
C4_ListedIdsAreNamed ==
    (IsDpiByAppCall /\ call.outcome = "return" /\ BothMapsSet) =>
        LET cm == network_traffic_category_map[1]
            am == network_traffic_application_map[1]
        IN  \A p \in AnnotatedPositions :
                LET raw == RawBody.data[p[1]].by_app[p[2]]
                    stat == ReturnedBody.data[p[1]].by_app[p[2]]
                IN  /\ stat.cat = raw.cat
                    /\ stat.app = raw.app
                    /\ \A n \in DOMAIN cm :
                          cm[n][1] = raw.cat => stat.x_cat = cm[n][2].name
                    /\ \A n \in DOMAIN am :
                          am[n][1] = raw.cat * 65536 + raw.app => stat.x_app = am[n][2].name
                    /\ stat.x_cat_app_id =
                          network_traffic_category_map_hash[1] \o ":" \o
                          network_traffic_application_map_hash[1]
                    /\ (/\ cm = << <<1, [name |-> "Web"]>> >>
                        /\ am = << <<65541, [name |-> "HTTPS"]>> >>
                        /\ raw = [cat |-> 1, app |-> 5]) =>
                          stat = [cat |-> 1, app |-> 5, x_cat |-> "Web", x_app |-> "HTTPS",
                                  x_cat_app_id |->
                                      "sha256<{\"1\": {\"name\": \"Web\"}}>:sha256<{\"65541\": {\"name\": \"HTTPS\"}}>"]

C4_Witness ==
    /\ call.op = "get_dpi_by_app"
    /\ call.outcome = "return"
    /\ BothMapsSet
    /\ \E p \in AnnotatedPositions :
          /\ p[1] = 2
          /\ RawBody.data[p[1]].by_app[p[2]] = [cat |-> 1, app |-> 5]
          /\ ReturnedBody.data[p[1]].by_app[p[2]].x_cat = "Web"
          /\ ReturnedBody.data[p[1]].by_app[p[2]].x_app = "HTTPS"

(* C5 as claimed: with both maps present, every stat record of the body a  *)
(* by-app DPI call returns, in whichever entry of "data" it stands,        *)
(* carries x_cat, x_app and x_cat_app_id.                                  *)
C5_EveryRecordAnnotated ==
    (IsDpiByAppCall /\ call.outcome = "return" /\ BothMapsSet) =>
        \A p \in StatPositions(ReturnedBody) :
            NameFields \subseteq DOMAIN ReturnedBody.data[p[1]].by_app[p[2]]

(* C6: with both maps present, a record whose cat is no key of the         *)
(* category map gets x_cat = "__unlisted__", one whose composite key is no *)
(* key of the application map gets x_app = "__unlisted__", each lookup     *)
(* regardless of the other, and annotating raises nothing.                 *)
C6_UnlistedIdsGetSentinel ==
    (IsDpiByAppCall /\ call.served.status = 200 /\ BothMapsSet) =>
        LET cm == network_traffic_category_map[1]
            am == network_traffic_application_map[1]
            cats == {cm[n][1] : n \in DOMAIN cm}
            apps == {am[n][1] : n \in DOMAIN am}
            names(m) == {m[n][2].name : n \in DOMAIN m}
        IN  /\ call.error \notin {"AttributeError", "TypeError"}
            /\ (/\ call.served.schema_ok
                /\ \A i \in DOMAIN RawBody.data : "by_app" \in DOMAIN RawBody.data[i]) =>
                   call.outcome = "return"
            /\ call.outcome = "return" =>
                  \A p \in AnnotatedPositions :
                      LET raw == RawBody.data[p[1]].by_app[p[2]]
                          stat == ReturnedBody.data[p[1]].by_app[p[2]]
                          key == raw.cat * 65536 + raw.app
                      IN  /\ raw.cat \notin cats => stat.x_cat = "__unlisted__"
                          /\ key \notin apps => stat.x_app = "__unlisted__"
                          /\ raw.cat \in cats => stat.x_cat \in names(cm)
                          /\ key \in apps => stat.x_app \in names(am)

C6_Witness ==
    /\ IsDpiByAppCall
    /\ call.outcome = "return"
    /\ BothMapsSet
    /\ \E p \in AnnotatedPositions :
          LET stat == ReturnedBody.data[p[1]].by_app[p[2]]
          IN  stat.cat = 2 /\ stat.x_cat = "Streaming" /\ stat.x_app = "__unlisted__"
    /\ \E p \in AnnotatedPositions :
          LET stat == ReturnedBody.data[p[1]].by_app[p[2]]
          IN  stat.cat = 1 /\ stat.x_cat = "__unlisted__" /\ stat.x_app = "HTTPS"


IsStatsCall == DOMAIN call.args = {"interval", "element_type", "stat_attributes"}

(* C7: get_stats_for_site raises ValueError and sends nothing when the     *)
(* interval is not 5minutes, hourly or daily, or the element type is not   *)
(* site, user or ap, or some attribute is not one of the ten known ones;   *)
(* with all of them in these sets no ValueError is raised and exactly one  *)
(* POST is sent.                                                           *)
C7_StatsPreflight ==
    IsStatsCall =>
        LET a == call.args
            known == {"bytes", "wan-tx_bytes", "wan-rx_bytes", "wlan_bytes", "num_sta",
                      "lan-num_sta", "wlan-num_sta", "time", "rx_bytes", "tx_bytes"}
            valid == /\ a.interval \in {"5minutes", "hourly", "daily"}
                     /\ a.element_type \in {"site", "user", "ap"}
                     /\ \A i \in DOMAIN a.stat_attributes : a.stat_attributes[i] \in known
        IN  IF valid
            THEN /\ call.error # "ValueError"
                 /\ Len(call.requests) = 1
                 /\ call.requests[1].method = "POST"
            ELSE /\ call.outcome = "raise"
                 /\ call.error = "ValueError"
                 /\ call.value = None
                 /\ call.requests = <<>>

C7_Witness ==
    /\ call.op = "get_stats_for_site"
    /\ call.args.interval = "daily"
    /\ call.args.element_type = "ap"
    /\ call.args.stat_attributes = <<"bytes", "rx_packets">>
    /\ call.error = "ValueError"
    /\ call.requests = <<>>

IsEndpointCall == call.op \notin {"", "__init__", "get_category_and_application_map"}

(* C8: an endpoint method sends exactly one request per invocation (the    *)
(* statistics query once its arguments have passed the pre-flight checks   *)
(* of C7); when the status of the response is not 200 the method raises    *)
(* the client's exception, returns no body and sends nothing more.         *)
C8_OneRequestNoRetry ==
    (IsEndpointCall /\ call.error # "ValueError") =>
        /\ Len(call.requests) = 1
        /\ call.requests[1].status = call.served.status
        /\ call.served.status # 200 =>
              /\ call.outcome = "raise"
              /\ call.error = "UnifiAPIClientException"
              /\ call.value = None

C8_Witness ==
    /\ call.op = "get_sites"
    /\ call.served.status = 404
    /\ call.outcome = "raise"
    /\ Len(call.requests) = 1

(* The resolver has run in this call: called by the caller, or by a        *)
(* construction with the best-effort flag after a successful login.        *)
ResolverRan ==
    \/ IsResolverCall
    \/ /\ IsConstruction
       /\ call.served.login_status = 200
       /\ call.args.try_to_get_category_and_app_map

ScriptGets ==
    SelectSeq(call.requests,
              LAMBDA x : x.path = "/manage/angular/<build>/js/dynamic.dpi.js")

(* The distinct build ids the loop had to go through. *)
Candidates ==
    IF DOMAIN call.locals = {} THEN {}
    ELSE {call.locals.build_stings_in_text[i] : i \in DOMAIN call.locals.build_stings_in_text}

(* C9: in the candidate loop no script GET follows one answered 200, no    *)
(* build id is requested twice, only candidates are requested, and a GET   *)
(* answered otherwise is followed by the GET of the next candidate as long *)
(* as one is left; so there are at most as many script GETs as distinct    *)
(* candidates.                                                             *)
C9_CandidateLoop ==
    ResolverRan =>
        /\ \A i \in 1..(Len(ScriptGets) - 1) : ScriptGets[i].status # 200
        /\ \A i, j \in DOMAIN ScriptGets : i # j => ScriptGets[i].build # ScriptGets[j].build
        /\ \A i \in DOMAIN ScriptGets : ScriptGets[i].build \in Candidates
        /\ Len(ScriptGets) <= Cardinality(Candidates)
        /\ (\A i \in DOMAIN ScriptGets : ScriptGets[i].status # 200) =>
              Len(ScriptGets) = Cardinality(Candidates)

C9_Witness ==
    /\ IsResolverCall
    /\ DOMAIN call.locals # {}
    /\ Len(call.locals.build_stings_in_text) = 3
    /\ Cardinality(Candidates) = 2
    /\ Len(ScriptGets) = 2
    /\ ScriptGets[1].status = 404
    /\ ScriptGets[2].status = 200

(* C10: when no candidate's script GET is answered 200, every distinct     *)
(* candidate has been requested exactly once and the resolver raises the   *)
(* client's exception and returns no maps (a construction swallows it and  *)
(* is left without maps).                                                  *)
C10_NoScriptFound ==
    (/\ ResolverRan
     /\ Candidates # {}
     /\ \A i \in DOMAIN ScriptGets : ScriptGets[i].status # 200) =>
        /\ \A b \in Candidates :
              Cardinality({i \in DOMAIN ScriptGets : ScriptGets[i].build = b}) = 1
        /\ Len(ScriptGets) = Cardinality(Candidates)
        /\ IsResolverCall =>
              /\ call.outcome = "raise"
              /\ call.error = "UnifiAPIClientException"
              /\ call.value = None
        /\ IsConstruction => (instance = "constructed" /\ AllAbsent)

C10_Witness ==
    /\ IsResolverCall
    /\ Cardinality(Candidates) = 2
    /\ Len(ScriptGets) = 2
    /\ ScriptGets[1].status = 404
    /\ ScriptGets[2].status = 204
    /\ call.error = "UnifiAPIClientException"

PageGets == SelectSeq(call.requests, LAMBDA x : x.path = "/manage/account/login")

(* The caller handed the resolver at least one build id. *)
BuildsSupplied ==
    /\ IsResolverCall
    /\ Len(call.args.angular_build_str_list) = 1
    /\ Len(call.args.angular_build_str_list[1]) >= 1

(* C11: a resolver run that was given no build ids (None or an empty list) *)
(* sends exactly one GET of the login page, before anything else of its    *)
(* own; when that page is served and carries no build id, no script is     *)
(* requested and the resolver raises the client's exception (which a       *)
(* construction swallows, staying without maps).  A resolver run that was  *)
(* given a non-empty list never requests the login page.                   *)
C11_DiscoveryOnlyWithoutBuilds ==
    ResolverRan =>
        /\ BuildsSupplied => PageGets = <<>>
        /\ ~BuildsSupplied =>
              /\ Len(PageGets) = 1
              /\ \A i \in DOMAIN call.requests :
                    call.requests[i].path = "/manage/account/login" =>
                        \A j \in 1..(i - 1) : call.requests[j].path = "/api/login"
              /\ (PageGets[1].status = 200 /\ Candidates = {}) =>
                    /\ ScriptGets = <<>>
                    /\ IsResolverCall =>
                          /\ call.outcome = "raise"
                          /\ call.error = "UnifiAPIClientException"
                          /\ Len(call.requests) = 1
                    /\ IsConstruction =>
                          /\ instance = "constructed"
                          /\ AllAbsent
                          /\ Len(call.requests) = 2

C11_Witness ==
    /\ IsResolverCall
    /\ call.args.angular_build_str_list = <<(<<>>)>>
    /\ Len(PageGets) = 1
    /\ PageGets[1].status = 200
    /\ ScriptGets = <<>>
    /\ call.outcome = "raise"
    /\ call.error = "UnifiAPIClientException"

(* C12 as claimed: whatever makes the resolver fail, a script served with  *)
(* 200 that the pattern does not match and a group that does not parse     *)
(* included, the call raises the one kind of error that a best-effort      *)
(* construction catches.                                                   *)
C12_OneResolutionErrorKind ==
    (IsResolverCall /\ call.outcome = "raise") =>
        /\ Swallowed(call.error)
        /\ call.error \notin {"AttributeError", "YAMLError"}

(* x | y on non-negative integers, bit by bit. *)
RECURSIVE BitOr(_, _)
BitOr(x, y) ==
    IF x = 0 THEN y
    ELSE IF y = 0 THEN x
    ELSE (IF x % 2 = 1 \/ y % 2 = 1 THEN 1 ELSE 0) + 2 * BitOr(x \div 2, y \div 2)

(* x << n, bit by bit. *)
RECURSIVE ShiftLeft(_, _)
ShiftLeft(x, n) == IF n = 0 THEN x ELSE ShiftLeft(x + x, n - 1)

(* C13: for a record with cat >= 0 and 0 <= app < 65536 the composite key  *)
(* the step computes is (cat << 16) | app, whatever else the record holds  *)
(* and whatever maps the client has.                                       *)
C13_CompositeKey ==
    (call.op = "app_cat_id" /\ call.args.stat.cat >= 0 /\ call.args.stat.app >= 0
     /\ call.args.stat.app < 65536) =>
        call.value = <<BitOr(ShiftLeft(call.args.stat.cat, 16), call.args.stat.app)>>

C13_Witness ==
    /\ call.op = "app_cat_id"
    /\ call.args.stat.cat = 3
    /\ call.args.stat.app = 65535
    /\ "x_cat" \in DOMAIN call.args.stat
    /\ call.value = <<262143>>

(* C14: applying the annotation step again to a record it has annotated,   *)
(* on the same client, gives the same record: the same fields, the same    *)
(* x_cat, x_app and x_cat_app_id, and cat and app as they were served.     *)
C14_AnnotationIdempotent ==
    (call.op = "annotate" /\ call.served.times >= 2) =>
        LET before == call.served.before
            after == call.value[1]
        IN  /\ DOMAIN after = DOMAIN before
            /\ after.x_cat = before.x_cat
            /\ after.x_app = before.x_app
            /\ after.x_cat_app_id = before.x_cat_app_id
            /\ after.cat = call.args.stat.cat
            /\ after.app = call.args.stat.app
            /\ after = before

C14_Witness ==
    /\ call.op = "annotate"
    /\ call.served.times = 2
    /\ call.args.stat = [cat |-> 1, app |-> 0]
    /\ call.value[1].x_cat = "Web"
    /\ call.value[1].x_app = "__unlisted__"

ResolverPaths == {"/manage/account/login", "/manage/angular/<build>/js/dynamic.dpi.js"}

(* C15: the client runs the resolver only inside its construction, and     *)
(* there at most once (one login-page GET at most, and none unless the     *)
(* flag is set and the login succeeded); no endpoint call, a DPI call on a *)
(* client without maps included, requests the login page or a script: a    *)
(* DPI call is one POST and works with the maps the client holds.          *)
C15_ResolverOnlyAtConstruction ==
    /\ IsEndpointCall =>
          /\ \A i \in DOMAIN call.requests :
                /\ call.requests[i].path \notin ResolverPaths
                /\ call.requests[i].build = ""
          /\ IsDpiByAppCall =>
                /\ Len(call.requests) = 1
                /\ call.requests[1].method = "POST"
    /\ IsConstruction =>
          /\ Len(PageGets) <= 1
          /\ ~ResolverRan => \A i \in DOMAIN call.requests :
                                 call.requests[i].path \notin ResolverPaths
          /\ ResolverRan => Len(PageGets) = 1

C15_Witness ==
    /\ call.op = "get_dpi_by_app"
    /\ AllAbsent
    /\ call.outcome = "return"
    /\ Len(call.served.body.data) = 2
    /\ \A i \in DOMAIN call.served.body.data : HasStats(call.served.body.data[i])
    /\ call.requests = <<Exchange("POST", "/api/s/<site>/stat/stadpi", "", 200)>>

(* C16: once the client is constructed no step changes its two maps or its *)
(* two hashes: not an annotating DPI call, not a resolver call made by the *)
(* caller (which returns the maps it resolved and stores nothing), not any *)
(* other call.                                                             *)
C16_MapsFrozenAfterConstruction ==
    [][instance = "constructed" => UNCHANGED fields]_vars

(* A caller's resolver call has returned maps other than the client's own, *)
(* and the client still holds its own.                                     *)
C16_Witness ==
    /\ IsResolverCall
    /\ call.outcome = "return"
    /\ BothMapsSet
    /\ network_traffic_category_map = << << <<1, [name |-> "Web"]>> >> >>
    /\ call.value[1][1] = << << <<2, [name |-> "Streaming"]>> >> >>

IsDpiByCategoryCall == call.op \in {"get_site_dpi_by_category", "get_dpi_by_category"}

(* The records of the by_cat lists of a body, as <<entry, record>>. *)
CategoryPositions(body) ==
    UNION {{<<i, j>> : j \in (IF "by_cat" \in DOMAIN body.data[i]
                              THEN DOMAIN body.data[i].by_cat ELSE {})} :
           i \in DOMAIN body.data}

(* C17 as claimed: with both maps present, the records a category-level   *)
(* DPI call returns carry the resolved category name and the fingerprint.  *)
C17_CategoryEndpointsAnnotate ==
    (IsDpiByCategoryCall /\ call.outcome = "return" /\ BothMapsSet) =>
        \A p \in CategoryPositions(ReturnedBody) :
            {"x_cat", "x_cat_app_id"} \subseteq DOMAIN ReturnedBody.data[p[1]].by_cat[p[2]]

(* C17, amended: get_site_dpi_by_category and get_dpi_by_category send one *)
(* POST and return the served body as it is, with no name field on any     *)
(* record, whether or not the client holds maps; only the by-app calls     *)
(* annotate.                                                               *)
C17_CategoryEndpointsReturnRaw ==
    (IsDpiByCategoryCall /\ call.outcome = "return") =>
        /\ ReturnedBody = RawBody
        /\ \A p \in CategoryPositions(ReturnedBody) :
              DOMAIN ReturnedBody.data[p[1]].by_cat[p[2]] \cap NameFields = {}
        /\ Len(call.requests) = 1
        /\ call.requests[1].method = "POST"

C17_Witness ==
    /\ call.op = "get_site_dpi_by_category"
    /\ call.outcome = "return"
    /\ BothMapsSet
    /\ network_traffic_category_map = << << <<1, [name |-> "Web"]>> >> >>
    /\ CategoryPositions(ReturnedBody) # {}
    /\ ReturnedBody.data[1].by_cat[1] = [cat |-> 1, rx_bytes |-> 10]

LoginRefused == IsConstruction /\ call.served.login_status # 200

RequestRefused ==
    IsEndpointCall /\ call.outcome = "raise" /\ Len(call.requests) = 1
    /\ call.requests[1].status # 200

(* The resolver, called by the caller, failed before it had a script. *)
DiscoveryFailed ==
    IsResolverCall /\ call.outcome = "raise"
    /\ \A i \in DOMAIN ScriptGets : ScriptGets[i].status # 200

(* C18 as claimed: a refused login and a refused endpoint request raise    *)
(* kinds of error other than the resolver's, so that a handler for the     *)
(* resolution kind (the constructor's except clause) catches neither.      *)
C18_ThreeErrorKinds ==
    (LoginRefused \/ RequestRefused) => ~Swallowed(call.error)

(* C18, amended: a refused login, a refused endpoint request and a         *)
(* resolver that found no page, no build id or no script all raise the     *)
(* same kind, UnifiAPIClientException, so a handler for it catches all     *)
(* three; the resolver's failures after a script was fetched are of other  *)
(* kinds (AttributeError, YAMLError).                                      *)
C18_OneClientErrorKind ==
    /\ (LoginRefused \/ RequestRefused \/ DiscoveryFailed) =>
          /\ call.outcome = "raise"
          /\ call.error = "UnifiAPIClientException"
          /\ Swallowed(call.error)
    /\ (IsResolverCall /\ call.outcome = "raise" /\ ~DiscoveryFailed) =>
          call.error \in {"AttributeError", "YAMLError"}

C18_Witness ==
    /\ call.op = "get_sites"
    /\ RequestRefused
    /\ call.requests[1].status = 404
    /\ call.error = "UnifiAPIClientException"
    /\ Swallowed(call.error)

EqualDicts(d, e) ==
    /\ DictKeys(d) = DictKeys(e)
    /\ \A k \in DictKeys(d) : DictItem(d, k) = DictItem(e, k)

(* The fields of another client, constructed against a controller whose    *)
(* login page names one build and whose script is the given one.           *)
OtherClient(script) ==
    Constructed(TRUE, 200,
                [page_status |-> 200, page |-> <<"g9c8f4ab88">>,
                 set_order |-> <<"g9c8f4ab88", "0.1.2">>,
                 script_status |-> [b \in BuildIds |-> 200],
                 script |-> script]).fields

(* C20 as claimed: the two hashes are the digests of the maps' content, so *)
(* every record a by-app DPI call of this client annotates carries the one *)
(* x_cat_app_id made of them, and any other client whose resolved maps     *)
(* are equal to this client's stamps the same x_cat_app_id.                *)
C20_FingerprintOfContent ==
    (IsDpiByAppCall /\ call.outcome = "return" /\ BothMapsSet) =>
        LET id == network_traffic_category_map_hash[1] \o ":" \o
                  network_traffic_application_map_hash[1]
        IN  /\ network_traffic_category_map_hash[1] =
                  sha256_hexdigest(json_dumps(network_traffic_category_map))
            /\ network_traffic_application_map_hash[1] =
                  sha256_hexdigest(json_dumps(network_traffic_application_map))
            /\ \A p \in AnnotatedPositions :
                  ReturnedBody.data[p[1]].by_app[p[2]].x_cat_app_id = id
            /\ \A script \in Scripts :
                  LET other == OtherClient(script)
                  IN  (/\ MapsPresent(other)
                       /\ EqualDicts(Val(other.category_map),
                                     network_traffic_category_map[1])
                       /\ EqualDicts(Val(other.application_map),
                                     network_traffic_application_map[1])) =>
                          Val(other.category_map_hash) \o ":" \o
                          Val(other.application_map_hash) = id

FlagCleared == IsConstruction /\ ~call.args.try_to_get_category_and_app_map

(* C21: a construction with the flag cleared whose login is answered 200   *)
(* sends the login POST and nothing else and leaves the client constructed *)
(* with both maps and both hashes absent; a constructed client without     *)
(* them stays without them, and every by-app DPI call it then makes        *)
(* returns the records as served.                                          *)
C21_FlagClearedOneRequest ==
    /\ [](FlagCleared /\ call.served.login_status = 200 =>
            /\ instance = "constructed"
            /\ call.outcome = "return"
            /\ call.requests = <<[method |-> "POST", path |-> "/api/login",
                                  build |-> "", status |-> 200]>>
            /\ AllAbsent)
    /\ [][(instance = "constructed" /\ AllAbsent) => AllAbsent']_vars
    /\ []((IsDpiByAppCall /\ AllAbsent /\ call.served.status = 200) =>
            LeftRaw(call.served, call))

C21_Witness ==
    /\ FlagCleared
    /\ call.served.login_status = 200
    /\ instance = "constructed"
    /\ Len(call.requests) = 1
    /\ AllAbsent

(* C22 as claimed: a constructed client has the category map exactly when  *)
(* it has the application map, has both hashes whenever it has the maps,   *)
(* and so never fails in a by-app DPI call for reading an absent hash.     *)
C22_MapsAndHashesTogether ==
    instance = "constructed" =>
        /\ network_traffic_category_map = None <=> network_traffic_application_map = None
        /\ BothMapsSet =>
              /\ network_traffic_category_map_hash # None
              /\ network_traffic_application_map_hash # None
        /\ IsDpiByAppCall => call.error # "TypeError"

(* C23: a by-app DPI call answered with anything but 200 raises the        *)
(* client's exception with nothing annotated and nothing validated; one    *)
(* answered with 200 whose annotation raises nothing validates the body    *)
(* after annotating it (with both maps present the records that get names  *)
(* have them in the validated body; otherwise the validated body is the    *)
(* served one) and returns that very body if and only if it fits the       *)
(* schema, raising ValidationError if not.                                 *)
C23_StatusThenAnnotateThenValidate ==
    IsDpiByAppCall =>
        /\ call.served.status # 200 =>
              /\ call.outcome = "raise"
              /\ call.error = "UnifiAPIClientException"
              /\ call.value = None
              /\ DOMAIN call.locals = {}
        /\ (call.served.status = 200 /\ call.error \in {"", "ValidationError"}) =>
              /\ DOMAIN call.locals = {"validated"}
              /\ call.outcome = "return" <=> call.served.schema_ok
              /\ call.outcome = "return" => ReturnedBody = call.locals.validated
              /\ ~BothMapsSet => call.locals.validated = RawBody
              /\ BothMapsSet =>
                    \A p \in StatPositions(RawBody) :
                        (p[1] = 1 \/ call.op = "get_dpi_by_app") =>
                            LET stat == call.locals.validated.data[p[1]].by_app[p[2]]
                            IN  /\ NameFields \subseteq DOMAIN stat
                                /\ stat.cat = RawBody.data[p[1]].by_app[p[2]].cat
        /\ (call.served.status = 200 /\ call.error \notin {"", "ValidationError"}) =>
              DOMAIN call.locals = {}

C23_Witness ==
    /\ call.op = "get_site_dpi_by_app"
    /\ call.served.status = 200
    /\ BothMapsSet
    /\ call.error = "ValidationError"
    /\ StatPositions(RawBody) # {}
    /\ HasStats(RawBody.data[1])
    /\ call.locals.validated.data[1].by_app[1].x_cat = "Web"

(* C24: when the login-page GET of a resolver run is answered with         *)
(* anything but 200, the run requests no script and fails: called by the   *)
(* caller it raises the client's exception having sent that one GET;       *)
(* inside a best-effort construction the exception is swallowed and the    *)
(* client is constructed with both maps and both hashes absent.            *)
C24_PageRefused ==
    (ResolverRan /\ PageGets # <<>> /\ PageGets[1].status # 200) =>
        /\ ScriptGets = <<>>
        /\ Len(PageGets) = 1
        /\ IsResolverCall =>
              /\ call.outcome = "raise"
              /\ call.error = "UnifiAPIClientException"
              /\ call.value = None
              /\ Len(call.requests) = 1
        /\ IsConstruction =>
              /\ instance = "constructed"
              /\ call.outcome = "return"
              /\ Len(call.requests) = 2
              /\ AllAbsent

C24_Witness ==
    /\ IsConstruction
    /\ call.args.try_to_get_category_and_app_map
    /\ Len(call.requests) = 2
    /\ call.requests[2] = [method |-> "GET", path |-> "/manage/account/login",
                           build |-> "", status |-> 204]
    /\ instance = "constructed"
    /\ AllAbsent

====
